---- MODULE Spec2Model ----
(***************************************************************************)
(* Model of the DNS query client of src/main.rs: one run of main(), from   *)
(* reading the command line to the hexdump of the response.  A byte is a   *)
(* number in 0..255, a string or buffer is a sequence of bytes.            *)
(***************************************************************************)
EXTENDS Integers, Sequences, FiniteSets, TLC

VARIABLES
    args,        \* command-line arguments after the program name
    nameLabels,  \* history: the labels the queried name was put together from
    endian,      \* byte order of the target the program was built for
    pc,          \* position of main()
    err,         \* the stage whose io::Error ended main(), "" if none
    query,       \* String query
    cap,         \* capacity requested for data (buf_size)
    hdr,         \* DnsHeader hdr, fields as the u16 values held in memory
    data,        \* Vec<u8> data
    stdout,      \* lines printed so far
    sendCalls,   \* number of calls of socket.send
    recvCalls,   \* number of calls of socket.recv
    wire,        \* datagrams handed to the network by socket.send
    replied,     \* whether the resolver has answered
    inbox,       \* datagrams queued on the socket, not yet received
    response     \* Box<[u8]> response

vars == <<args, nameLabels, endian, pc, err, query, cap, hdr, data, stdout,
          sendCalls, recvCalls, wire, replied, inbox, response>>

----------------------------------------------------------------------------
(* Bounds of the model *)

\* largest number of labels of a queried name
MaxLabels == 2

(* Program constants *)

\* size_of::<DnsHeader>()
HeaderSize == 12
\* DnsHeaderFlags
RESPONSE == 1
RECURSION_DESIRED == 256
\* Type::A, Class::IN
TypeA == 1
ClassIN == 1
\* exclusive upper end of the transaction id range
IdHigh == 63335
\* the separator of split('.')
Dot == 46
\* vec![0; 4096]
RespBufSize == 4096

U8 == 256

----------------------------------------------------------------------------
(* Inputs *)

Run(b, n) == [i \in 1..n |-> b]

\* "www.google.com".to_string()
DefaultQuery ==
    <<119, 119, 119, 46, 103, 111, 111, 103, 108, 101, 46, 99, 111, 109>>

DefaultLabels ==
    << <<119, 119, 119>>, <<103, 111, 111, 103, 108, 101>>, <<99, 111, 109>> >>

\* label lengths around the limits of the length byte: empty, short, 63, 64, 256
LabelLens == {0, 1, 63, 64, 256}

Labels == {Run(97, n) : n \in LabelLens}

LabelSeqs == UNION {[1..n -> Labels] : n \in 1..MaxLabels}

RECURSIVE Join(_)
Join(ls) ==
    IF Len(ls) = 0 THEN <<>>
    ELSE IF Len(ls) = 1 THEN ls[1]
    ELSE ls[1] \o <<Dot>> \o Join(Tail(ls))

\* values the random generator is asked about, around the ends of the id range
IdSamples == {1, 63334, 63335, 65535}

\* datagrams the resolver may answer with
Replies == {Run(n % U8, n) : n \in {0, 1, RespBufSize, RespBufSize + 1}}

----------------------------------------------------------------------------
(* Pure functions *)

\* mutant: the byte swap of to_be left out
ToBeNoSwap(x, e) == x

\* u16::to_be: the value whose in-memory bytes are x's big-endian bytes
ToBe(x, e) ==
    IF e = "little" THEN (x % U8) * U8 + (x \div U8) ELSE x

\* the bytes of a u16 as it lies in memory on the target
NativeBytes(x, e) ==
    IF e = "little" THEN <<x % U8, x \div U8>> ELSE <<x \div U8, x % U8>>

\* u16::to_be_bytes
ToBeBytes(x) == <<x \div U8, x % U8>>

\* as_u8_slice(&hdr): the memory of the packed struct, fields in declared order
AsU8Slice(h, e) ==
    NativeBytes(h.id, e) \o NativeBytes(h.flags, e) \o NativeBytes(h.qcount, e)
    \o NativeBytes(h.ancount, e) \o NativeBytes(h.nscount, e)
    \o NativeBytes(h.arcount, e)

\* DnsHeader::default()
DefaultHeader ==
    [id |-> 0, flags |-> 0, qcount |-> 0, ancount |-> 0, nscount |-> 0,
     arcount |-> 0]

\* mutant: the upper end of the range taken as inclusive
GenRangeInclusive(low, high) == {x \in IdSamples : low <= x /\ x <= high}

\* the values gen_range(low, high) can return: low <= x < high
GenRange(low, high) == {x \in IdSamples : low <= x /\ x < high}

\* DnsHeader { id, flags, qcount, ..Default::default() }
MakeHeader(id, e) ==
    [DefaultHeader EXCEPT !.id = id,
                          !.flags = ToBe(RECURSION_DESIRED, e),
                          !.qcount = ToBe(1, e)]

\* size_of::<DnsHeader>() + 6 + query.len()
BufSize(q) == HeaderSize + 6 + Len(q)

\* query.split('.'): the slices between separators, empty ones included
RECURSIVE SplitFrom(_, _)
SplitFrom(s, start) ==
    LET dots == {i \in start..Len(s) : s[i] = Dot}
    IN  IF dots = {} THEN << SubSeq(s, start, Len(s)) >>
        ELSE LET d == CHOOSE i \in dots : \A j \in dots : i <= j
             IN  << SubSeq(s, start, d - 1) >> \o SplitFrom(s, d + 1)

Split(s) == SplitFrom(s, 1)

\* mutant: the length byte written after the label instead of before it
PushLabelLenAfter(buf, label) == buf \o label \o << Len(label) % U8 >>

\* one pass of the loop body: the length as u8, then the label's bytes
PushLabel(buf, label) == buf \o << Len(label) % U8 >> \o label

\* for label in query.split('.') { ... }
RECURSIVE PushLabels(_, _)
PushLabels(buf, labels) ==
    IF labels = <<>> THEN buf
    ELSE PushLabels(PushLabel(buf, Head(labels)), Tail(labels))

\* mutant: the terminating zero left out
FormatQueryNoTerminator(buf, q) == PushLabels(buf, Split(q))

\* the loop and the terminating data.push(0u8)
FormatQuery(buf, q) == PushLabels(buf, Split(q)) \o <<0>>

\* the query type and class, big-endian
TypeAndClass == ToBeBytes(TypeA) \o ToBeBytes(ClassIN)

\* {:0Nx}: the hexadecimal digits of n, at least width of them
RECURSIVE HexDigits(_, _)
HexDigits(n, width) ==
    IF n < 16 /\ width <= 1 THEN <<n>>
    ELSE HexDigits(n \div 16, width - 1) \o <<n % 16>>

\* data.chunks(size): the number of chunks and the k-th of them
NumChunks(d, size) == (Len(d) + size - 1) \div size

Chunk(d, size, k) ==
    SubSeq(d, (k - 1) * size + 1, IF k * size < Len(d) THEN k * size ELSE Len(d))

\* {:02x} of a u8: its two hexadecimal digits
HexByte(x) == << x \div 16, x % 16 >>

\* one line of hexdump: the offset {:04x}, then the bytes {:02x} in groups of 8
HexRow(i, d) ==
    [text |-> "row",
     arg |-> << HexDigits(i * 16, 4) >> \o
             [g \in 1..NumChunks(d, 8) |->
                 LET ch == Chunk(d, 8, g)
                 IN  [x \in 1..Len(ch) |-> HexByte(ch[x])]]]

\* hexdump(data): one line per chunk of 16 bytes
Hexdump(d) ==
    [k \in 1..NumChunks(d, 16) |-> HexRow(k - 1, Chunk(d, 16, k))]

\* println!
Line(text, arg) == [text |-> text, arg |-> arg]

\* socket.recv(&mut response) and response.truncate(length): a datagram longer
\* than the buffer loses its excess bytes
Received(datagram) ==
    LET length == IF Len(datagram) < RespBufSize THEN Len(datagram) ELSE RespBufSize
        filled == [i \in 1..RespBufSize |-> IF i <= length THEN datagram[i] ELSE 0]
    IN  SubSeq(filled, 1, length)

----------------------------------------------------------------------------
(* The run of main() *)

Init ==
    /\ \/ /\ args = <<>>
          /\ nameLabels = DefaultLabels
       \/ \E ls \in LabelSeqs :
             /\ args = << Join(ls) >>
             /\ nameLabels = ls
    /\ endian \in {"little", "big"}
    /\ pc = "start"
    /\ err = ""
    /\ query = <<>>
    /\ cap = 0
    /\ hdr = DefaultHeader
    /\ data = <<>>
    /\ stdout = <<>>
    /\ sendCalls = 0
    /\ recvCalls = 0
    /\ wire = <<>>
    /\ replied = FALSE
    /\ inbox = <<>>
    /\ response = <<>>

\* env::args().nth(1).unwrap_or_else(...) and println!("Query: {}", query)
ReadArgs ==
    /\ pc = "start"
    /\ query' = IF Len(args) >= 1 THEN args[1] ELSE DefaultQuery
    /\ stdout' = stdout
                 \o (IF Len(args) >= 1 THEN <<>>
                     ELSE << Line("No query specified, using default", <<>>) >>)
                 \o << Line("Query: ", query') >>
    /\ pc' = "args"
    /\ UNCHANGED <<args, nameLabels, endian, err, cap, hdr, data, sendCalls,
                   recvCalls, wire, replied, inbox, response>>

\* mutant: a failed call is made again instead of ending main()
FailRetry(stage) ==
    /\ pc' = pc
    /\ err' = stage

\* a call that returned Err: the ? operator returns it from main()
Fail(stage) ==
    /\ pc' = "error"
    /\ err' = stage

\* UdpSocket::bind("0.0.0.0:1234")?
Bind ==
    /\ pc = "args"
    /\ \/ pc' = "bound" /\ err' = err
       \/ Fail("bind")
    /\ UNCHANGED <<args, nameLabels, endian, query, cap, hdr, data, stdout,
                   sendCalls, recvCalls, wire, replied, inbox, response>>

\* socket.connect("192.168.1.254:53")?
Connect ==
    /\ pc = "bound"
    /\ \/ pc' = "connected" /\ err' = err
       \/ Fail("connect")
    /\ UNCHANGED <<args, nameLabels, endian, query, cap, hdr, data, stdout,
                   sendCalls, recvCalls, wire, replied, inbox, response>>

\* Vec::with_capacity(buf_size), the header with a random id, and its bytes
WriteHeader ==
    /\ pc = "connected"
    /\ cap' = BufSize(query)
    /\ \E id \in GenRange(0, IdHigh) : hdr' = MakeHeader(id, endian)
    /\ data' = <<>> \o AsU8Slice(hdr', endian)
    /\ pc' = "header"
    /\ UNCHANGED <<args, nameLabels, endian, err, query, stdout, sendCalls,
                   recvCalls, wire, replied, inbox, response>>

\* the label loop and the terminating zero
WriteName ==
    /\ pc = "header"
    /\ data' = FormatQuery(data, query)
    /\ pc' = "name"
    /\ UNCHANGED <<args, nameLabels, endian, err, query, cap, hdr, stdout,
                   sendCalls, recvCalls, wire, replied, inbox, response>>

\* the query type and class
WriteTypeClass ==
    /\ pc = "name"
    /\ data' = data \o TypeAndClass
    /\ pc' = "question"
    /\ UNCHANGED <<args, nameLabels, endian, err, query, cap, hdr, stdout,
                   sendCalls, recvCalls, wire, replied, inbox, response>>

\* println!("Hexdump of DNS request:"); hexdump(&data); println!("Sending request...")
DumpRequest ==
    /\ pc = "question"
    /\ stdout' = stdout \o << Line("Hexdump of DNS request:", <<>>) >>
                 \o Hexdump(data) \o << Line("Sending request...", <<>>) >>
    /\ pc' = "sending"
    /\ UNCHANGED <<args, nameLabels, endian, err, query, cap, hdr, data,
                   sendCalls, recvCalls, wire, replied, inbox, response>>

\* mutant: the send placed before the type and class are written
CanSendEarly == pc \in {"name", "sending"}

\* socket.send comes after the whole request is written and dumped
CanSend == pc = "sending"

\* socket.send(&data)?; println!("Request sent."); println!("Waiting for response...")
Send ==
    /\ CanSend
    /\ sendCalls' = sendCalls + 1
    /\ \/ /\ wire' = Append(wire, data)
          /\ stdout' = stdout \o << Line("Request sent.", <<>>),
                                    Line("Waiting for response...", <<>>) >>
          /\ pc' = "waiting"
          /\ err' = err
       \/ /\ Fail("send")
          /\ UNCHANGED <<wire, stdout>>
    /\ UNCHANGED <<args, nameLabels, endian, query, cap, hdr, data, recvCalls,
                   replied, inbox, response>>

\* the resolver answers a request it was sent, once, or never
Reply ==
    /\ wire # <<>>
    /\ ~replied
    /\ \E d \in Replies : inbox' = Append(inbox, d)
    /\ replied' = TRUE
    /\ UNCHANGED <<args, nameLabels, endian, pc, err, query, cap, hdr, data,
                   stdout, sendCalls, recvCalls, wire, response>>

\* recv returned Ok with this datagram: println!("Response arrived.") and truncate
Deliver(datagram, rest) ==
    /\ response' = Received(datagram)
    /\ inbox' = rest
    /\ stdout' = stdout \o << Line("Response arrived.", <<>>) >>
    /\ pc' = "received"
    /\ err' = err

\* mutant: a receive that gives up waiting and returns nothing
RecvOkOrTimeout ==
    IF inbox # <<>> THEN Deliver(Head(inbox), Tail(inbox)) ELSE Deliver(<<>>, inbox)

\* the blocking recv returns Ok only once a datagram is queued on the socket
RecvOk == inbox # <<>> /\ Deliver(Head(inbox), Tail(inbox))

\* socket.recv(&mut response)? returns once a datagram is queued, or with an error
Recv ==
    /\ pc = "waiting"
    /\ recvCalls' = recvCalls + 1
    /\ \/ RecvOk
       \/ /\ Fail("recv")
          /\ UNCHANGED <<response, inbox, stdout>>
    /\ UNCHANGED <<args, nameLabels, endian, query, cap, hdr, data, sendCalls,
                   wire, replied>>

\* println!("Hexdump of DNS response:"); hexdump(&response); Ok(())
DumpResponse ==
    /\ pc = "received"
    /\ stdout' = stdout \o << Line("Hexdump of DNS response:", <<>>) >>
                 \o Hexdump(response)
    /\ pc' = "done"
    /\ UNCHANGED <<args, nameLabels, endian, err, query, cap, hdr, data,
                   sendCalls, recvCalls, wire, replied, inbox, response>>

\* the steps of main()
Program ==
    \/ ReadArgs
    \/ Bind
    \/ Connect
    \/ WriteHeader
    \/ WriteName
    \/ WriteTypeClass
    \/ DumpRequest
    \/ Send
    \/ Recv
    \/ DumpResponse

Next == Program \/ Reply

Spec == Init /\ [][Next]_vars

----------------------------------------------------------------------------
(* Vocabulary of the properties *)

\* the 12 header bytes have been written to the buffer
HeaderWritten == Len(data) >= HeaderSize

\* the encoded name has been written, nothing after it yet
NameWritten == pc = "name"

\* the whole request has been written
RequestBuilt ==
    \/ pc \in {"question", "sending", "waiting", "received", "done"}
    \/ pc = "error" /\ err \in {"send", "recv"}

\* the bytes of the buffer after the header
AfterHeader == SubSeq(data, HeaderSize + 1, Len(data))

\* every label of the queried name is non-empty and at most 63 bytes long
ValidName ==
    \A i \in 1..Len(nameLabels) :
        Len(nameLabels[i]) >= 1 /\ Len(nameLabels[i]) <= 63

\* no label of the queried name is longer than 63 bytes
NoLongLabel == \A i \in 1..Len(nameLabels) : Len(nameLabels[i]) <= 63

\* the wire form of a list of labels: each one's length, then its bytes
RECURSIVE WireLabels(_)
WireLabels(ls) ==
    IF ls = <<>> THEN <<>>
    ELSE << Len(Head(ls)) >> \o Head(ls) \o WireLabels(Tail(ls))

\* sum over the labels of (1 + length)
RECURSIVE WireLength(_)
WireLength(ls) ==
    IF ls = <<>> THEN 0 ELSE 1 + Len(Head(ls)) + WireLength(Tail(ls))

\* the non-empty labels of a list, in order
RECURSIVE NonEmpty(_)
NonEmpty(ls) ==
    IF ls = <<>> THEN <<>>
    ELSE (IF Head(ls) = <<>> THEN <<>> ELSE << Head(ls) >>) \o NonEmpty(Tail(ls))

\* a 16-bit field of the buffer read big-endian
ReadBE(d, i) == d[i] * U8 + d[i + 1]

----------------------------------------------------------------------------
(* Properties *)

\* C1: bytes 0 and 1 of the request are the big-endian encoding of the
\* transaction id placed in the header: byte 0 = id div 256, byte 1 = id mod 256.
\* (Stated as claimed; the id is the one field written without to_be(), so on a
\* little-endian target the two bytes come out swapped.)
C1_IdBigEndian ==
    HeaderWritten => data[1] = hdr.id \div U8 /\ data[2] = hdr.id % U8

\* C2: for every name and id, bytes 2..11 of the request are
\* 01 00 | 00 01 | 00 00 | 00 00 | 00 00: flags read big-endian is 0x0100
\* (RECURSION_DESIRED only, RESPONSE clear), qcount 1, the other counts 0.
C2_FixedHeaderFields ==
    HeaderWritten =>
        /\ SubSeq(data, 3, HeaderSize) = <<1, 0, 0, 1, 0, 0, 0, 0, 0, 0>>
        /\ ReadBE(data, 3) = RECURSION_DESIRED
        /\ (ReadBE(data, 3) \div RESPONSE) % 2 = 0
        /\ ReadBE(data, 5) = 1
        /\ ReadBE(data, 7) = 0 /\ ReadBE(data, 9) = 0 /\ ReadBE(data, 11) = 0

C2_Witness ==
    HeaderWritten /\ endian = "little" /\ hdr.id = 63334 /\ Len(nameLabels) = 2

\* C3: for a name of non-empty labels of at most 63 bytes, the bytes from
\* offset 12 on are each label's length and bytes in order, a zero byte, type A
\* as 00 01 and class IN as 00 01, and nothing else; "www.google.com" gives
\* 3 w w w 6 g o o g l e 3 c o m 0 00 01 00 01.
C3_QuestionSection ==
    /\ RequestBuilt /\ ValidName =>
          AfterHeader = WireLabels(nameLabels) \o <<0>> \o <<0, 1>> \o <<0, 1>>
    /\ RequestBuilt /\ query = DefaultQuery =>
          AfterHeader = <<3, 119, 119, 119, 6, 103, 111, 111, 103, 108, 101,
                          3, 99, 111, 109, 0, 0, 1, 0, 1>>

C3_Witness ==
    /\ RequestBuilt /\ query = DefaultQuery /\ ValidName /\ wire # <<>>
    /\ AfterHeader[1] = 3 /\ AfterHeader[5] = 6

\* C4: for a name of non-empty labels of at most 63 bytes, the complete request
\* is 12 + sum over the labels of (1 + length) + 1 + 4 bytes long.
C4_RequestLength ==
    RequestBuilt /\ ValidName =>
        Len(data) = 12 + WireLength(nameLabels) + 1 + 4

C4_Witness ==
    /\ RequestBuilt /\ ValidName /\ Len(nameLabels) = 2
    /\ Len(nameLabels[1]) = 63 /\ Len(nameLabels[2]) = 1
    /\ Len(data) = 83

\* C5: empty labels contribute no bytes: the encoded name is the length and
\* bytes of each non-empty label followed by one zero byte, so the empty string
\* and a name of separators only encode to a lone zero byte.
\* (Stated as claimed, for names without over-long labels; the loop writes a
\* length byte for every slice split('.') yields, the empty ones included.)
C5_EmptyLabelsSkipped ==
    NameWritten /\ NoLongLabel =>
        AfterHeader = WireLabels(NonEmpty(nameLabels)) \o <<0>>

\* C6: a label of 64 bytes or more makes building the query fail: no encoded
\* name or request buffer is produced for it and nothing is sent.
\* (Stated as claimed; the loop has no length check and no failure path.)
C6_LongLabelRejected ==
    ~NoLongLabel => ~NameWritten /\ ~RequestBuilt /\ wire = <<>>

\* C7: a send happens only after the whole request (header, encoded name, type,
\* class) is built and the bytes sent are that complete buffer; after a failed
\* bind or connect the run has ended and nothing was sent or received.
C7_NoPartialSend ==
    /\ sendCalls > 0 => RequestBuilt
    /\ \A i \in 1..Len(wire) :
          /\ wire[i] = data
          /\ wire[i] = AsU8Slice(hdr, endian) \o FormatQuery(<<>>, query)
                       \o ToBeBytes(TypeA) \o ToBeBytes(ClassIN)
    /\ err \in {"bind", "connect"} =>
          pc = "error" /\ sendCalls = 0 /\ recvCalls = 0 /\ wire = <<>>
          /\ inbox = <<>>

C7_Witness ==
    /\ wire # <<>> /\ pc = "waiting" /\ Len(wire[1]) = Len(query) + 18
    /\ Len(nameLabels) = 2 /\ Len(nameLabels[1]) = 63

\* C8: at most one send and one receive per run, the receive only after a
\* successful send, nothing retried: a failed send ends the run without a
\* receive, a failed receive without a second send or receive; a run that
\* completes has made exactly one send and then exactly one receive.
C8_OneSendOneRecv ==
    /\ sendCalls <= 1 /\ recvCalls <= 1 /\ Len(wire) <= 1
    /\ recvCalls = 1 => sendCalls = 1 /\ Len(wire) = 1
    /\ err = "send" => pc = "error" /\ recvCalls = 0 /\ wire = <<>>
    /\ err = "recv" => pc = "error" /\ sendCalls = 1 /\ recvCalls = 1
    /\ pc = "done" => sendCalls = 1 /\ recvCalls = 1 /\ Len(wire) = 1

C8_Witness ==
    pc = "done" /\ sendCalls = 1 /\ recvCalls = 1 /\ err = ""

\* the last lines of stdout are the hexdump of the response
ResponseShown ==
    LET n == NumChunks(response, 16)
    IN  /\ Len(stdout) > n
        /\ stdout[Len(stdout) - n].text = "Hexdump of DNS response:"
        /\ SubSeq(stdout, Len(stdout) - n + 1, Len(stdout)) = Hexdump(response)

\* C9: after a successful send there is no timeout: the program leaves the
\* waiting state only when a datagram has arrived or the receive returned an
\* error, so without an answer it waits for ever; a response that arrives
\* (at most 4096 bytes of it) is received as it is, and the one step left
\* to the program then displays it and terminates.
C9_WaitsForResponse ==
    [][/\ pc = "waiting" /\ pc' # "waiting" =>
            \/ pc' = "error" /\ err' = "recv"
            \/ /\ inbox # <<>>
               /\ pc' = "received"
               /\ Len(response') <= RespBufSize
               /\ response' = SubSeq(Head(inbox), 1, Len(response'))
               /\ Len(Head(inbox)) <= RespBufSize => response' = Head(inbox)
       /\ pc = "received" /\ pc' # "received" => pc' = "done" /\ ResponseShown'
       /\ pc \in {"done", "error"} =>
             UNCHANGED <<pc, err, stdout, sendCalls, recvCalls, wire, response>>]_vars

C9_Witness ==
    pc = "done" /\ Len(response) = RespBufSize /\ ResponseShown

\* C10: the transaction id in the header is drawn from [0, 63335): every
\* request carries an id in 0..63334, none an id in 63335..65535.
C10_IdBelow63335 ==
    HeaderWritten =>
        /\ hdr.id \in 0..63334
        /\ data[1] + data[2] * U8 < 63335 \/ data[1] * U8 + data[2] < 63335
        /\ (IF endian = "little" THEN data[1] + data[2] * U8
            ELSE data[1] * U8 + data[2]) = hdr.id

C10_Witness ==
    HeaderWritten /\ hdr.id = 63334 /\ wire # <<>>

====
